---- MODULE Spec2Model ----
(***************************************************************************)
(* Model of the WaterRower gateway: the training session                   *)
(* (src/src/training/training-session.ts), the S4 serial driver            *)
(* (src/src/waterrower-serial/waterrower-serial.ts, class at line 359),    *)
(* the heart-rate monitor client (src/src/ble/heart-rate-monitor.ts, with  *)
(* connectAsync and reconnectAsync of the class at line 498) and the       *)
(* Indoor Bike Data characteristic                                         *)
(* (src/src/ble/ftms/IndoorBike/indoor-bike-data-chracteristic.ts).        *)
(*                                                                         *)
(* Times are epoch milliseconds as returned by Date.now().  Every action   *)
(* is one run-to-completion callback of the Node event loop.  The three    *)
(* variables lastOp, emitted and wrote describe the most recent callback:  *)
(* which operation ran and how it ended, the events it emitted and the     *)
(* lines it wrote to the serial port.                                      *)
(***************************************************************************)
EXTENDS Integers, Sequences, FiniteSets, TLC

\* ------------------------------------------------------------------ bounds
StepMs == 500          \* granularity of the wall clock
MaxClockSteps == 5     \* the clock stops advancing after this many steps
MaxTimers == 2         \* pending one-second timeouts of the session
MaxOrphans == 1        \* ports and intervals the driver lost track of
MaxPending == 2        \* delayed requests and replayed reads in flight
MaxAbandoned == 1      \* connect attempts still running after their timeout
MaxHandlers == 2       \* 'disconnect' handlers registered on the peripheral
MaxAdvPending == 2     \* startAdvertising calls not yet answered
MaxFile == 2           \* lines of a recording file
MaxResets == 2         \* reset() calls of the start-up handler

\* ------------------------------------------------------- program constants
CollectionIntervalMs == 1000
MsPerSecond == 1000
HexRadix == 16
MaxAttempts == 30           \* reconnectAsync: maxAttempts
CadenceFactor == 8          \* updateData: this._cadence * 8
PowerFactorNum == 3         \* updateData: this._power * 1.5
PowerFactorDen == 2
UInt16 == 65536
IndoorBikeFlags == 69       \* InstantaneousCadence | InstantaneousPower | MoreData
StrokeRateFactor == 2       \* startBLE: Number(data.value) * 2
Byte == 256
\* the name under which the driver emits its close event, and the key under
\* which the web server listens for it
DriverCloseEvent == "close"
CloseListenerKey == "Symbol(WaterRower:close)"

\* ------------------------------------------------------------- input sets
SampleNames == {"m_s_total", "stroke_rate", "distance"}
SampleValues == {3, 12}
HeartRates == {80}
Powers == {0, 101, 180}     \* watts handed to updateData
Cadences == {0, 24, 30}     \* strokes per minute handed to updateData
Null == -1                  \* an absent argument of updateData
Commands == {"WSI", "DDME"} \* a workout command and a display command
HrFlags == {0, 1, 6, 7, 22, 23}
HrPayloads ==
    {<<f, b1, b2>> : f \in HrFlags, b1 \in {48, 80}, b2 \in {0, 1}}
        \cup {<<0, 80>>, <<1, 48>>}
StrokeRates == {0, 24, 300} \* decoded values of stroke_rate
Watts == {0, 180, 2000}     \* decoded values of kcal_watts
TapNames == {"stroke_rate", "kcal_watts", "distance"}
AdapterStates == {"poweredOn", "poweredOff"}

Undefined == -1
NoTime == -1
NaN == -2                   \* parseInt found no digit
NoValue == -1               \* nothing received yet
DelayMs == 50               \* requestDataPoints: delayMs
DefaultRefreshRate == 200   \* DEFAULT_WATER_ROWER_OPTIONS.refreshRate
MainRefreshRate == 1000     \* the refreshRate main passes
RefreshRates == {DefaultRefreshRate, MainRefreshRate}
DefaultPortName == ""       \* DEFAULT_WATER_ROWER_OPTIONS.portName
ConfiguredPortName == "/dev/ttyACM0"

VARIABLES
    now,                    \* Date.now()
    \* TrainingSession
    state, startTime, endTime, pauseTime, totalPausedTime,
    dataPoints, currentData,
    waterRowerSubscription, heartRateSubscription,
    timers,                 \* deadlines of the pending setTimeout callbacks
    \* WaterRower
    serialPort,             \* "null", "opening", "open", or "lost" when the
                            \* peer closed the port the driver still holds
    requestTime,            \* TRUE when the polling interval handle is set
    readsCompleted,         \* reads$ has completed
    orphanOpening,          \* ports no longer referenced, 'open' still to come
    orphanOpen,             \* open ports no longer referenced
    leakedIntervals,        \* running intervals whose handle was overwritten
    pendingReqs,            \* setTimeout callbacks of requestDataPoints
    replay,                 \* reads of playRecording still to be replayed,
                            \* each with the delay it waits for
    portName,               \* options.portName
    listing,                \* SerialPort.list() promises not yet settled
    resets,                 \* reset() calls made by the start-up handler
    poll,                   \* the polling interval and the delayed requests
    published,              \* the read the callback handed to reads$.next
    delivered,              \* what a subscriber of datapoints$ received of it
    returned,               \* the value returned by the last readDataPoints
    latest,                 \* per register, the value of its last sample
    file,                   \* the lines of the recording file
    recordingSubscription,  \* the subscription held in the field is live
    leakedRecordings,       \* live subscriptions whose handle was overwritten
    appended,               \* lines the callback appended to the file
                            \* (the three describe the most recent callback)
    replayLast,             \* when the replay published last (or began)
    replayPrev,             \* the timestamp of the read replayed before
    waited,                 \* how long the replayed read was held back
    playing,                \* the promise of playRecording is pending
    heartRate,              \* the last element of heartRate$
    hrPayload,              \* the bytes of the last notification
    \* HeartRateMonitor
    hrmPeripheral, hrmConnected, hrmDisconnecting,
    hrmCharacteristic,      \* this.characteristic is set
    hrmLink,                \* the transport to the peripheral is up
    hrmHandlers,            \* once('disconnect') handlers on the peripheral
    caller,                 \* "none", "connect" or "reconnect"
    attempt,                \* where the awaited connectAsync stands
    abandoned,              \* connectAsync calls whose caller stopped waiting
    rcAttempts,             \* connectAsync calls made by reconnectAsync
    \* IndoorBikeDataCharacteristic
    updateValueCallback,    \* TRUE when a central is subscribed
    cachedPower, cachedCadence,
    argPower, argCadence,   \* the arguments of the last updateData
    notified,               \* payloads sent by the last updateData
    \* bleno
    blenoState,             \* the state of the latest 'stateChange' event
    advPending,             \* startAdvertising calls not yet answered
    advertising,            \* advertising started without error, not stopped
    servicesSet,            \* setServices has been called
    \* the most recent callback
    lastOp, emitted, wrote,
    \* observers
    observedDuration,       \* last value of calculateDuration handed out
    pausedWall,             \* wall time spent in state paused
    activeTicks,            \* timer callbacks that found the session active
    stoppedFrom             \* state in which stop() was called

sessionVars == <<state, startTime, endTime, pauseTime, totalPausedTime,
                 dataPoints, currentData, waterRowerSubscription,
                 heartRateSubscription, timers>>
portVars == <<orphanOpening, orphanOpen, leakedIntervals, pendingReqs, replay>>
driverVars == <<serialPort, requestTime, readsCompleted, portVars>>
connectVars == <<hrmCharacteristic, hrmLink, hrmHandlers, caller, attempt,
                 abandoned, rcAttempts>>
hrmVars == <<hrmPeripheral, hrmConnected, hrmDisconnecting, connectVars>>
charVars == <<updateValueCallback, cachedPower, cachedCadence, argPower,
              argCadence, notified>>
adapterVars == <<blenoState, advPending, advertising, servicesSet>>
ftmsVars == <<charVars, adapterVars>>
readVars == <<published, delivered, appended, waited>>
codecVars == <<returned, latest>>
recorderVars == <<file, recordingSubscription, leakedRecordings, replayLast,
                  replayPrev, playing>>
streamVars == <<portName, listing, resets, poll, codecVars, recorderVars>>
hrDataVars == <<heartRate, hrPayload>>
observerVars == <<observedDuration, pausedWall, activeTicks, stoppedFrom>>
vars == <<now, sessionVars, driverVars, hrmVars, ftmsVars, streamVars,
          readVars, hrDataVars, lastOp, emitted, wrote, observerVars>>

\* ----------------------------------------------------------------- helpers
EmptyData ==
    [distance |-> Undefined, strokeRate |-> Undefined, power |-> Undefined,
     calories |-> Undefined, heartRate |-> Undefined, speed |-> Undefined,
     totalStrokes |-> Undefined]

Op(name, result) == [op |-> name, result |-> result]

\* a callback that publishes no read
NoRead ==
    /\ published' = <<>>
    /\ delivered' = <<>>
    /\ appended' = 0
    /\ waited' = 0

\* n copies of e in a row
RECURSIVE Times(_, _)
Times(n, e) == IF n = 0 THEN <<>> ELSE <<e>> \o Times(n - 1, e)

\* no connectAsync call is running unawaited
NoAttempts == [linking |-> 0, discovering |-> 0, subscribing |-> 0]

\* parseInt(value, 16) applied to a number: the number is first written in
\* decimal and those digits are then read in base 16.
RECURSIVE ParseInt16(_)
ParseInt16(n) ==
    IF n < 10 THEN n ELSE HexRadix * ParseInt16(n \div 10) + (n % 10)

\* WaterRower.isConnected
IsConnected == serialPort = "open"

\* send that writes whether or not the driver holds a port
Send_Unguarded(cmds) == cmds

\* WaterRower.send: the lines written for the commands cmds
Send(cmds) == IF serialPort # "null" THEN cmds ELSE <<>>

\* calculateDuration that forgets the paused time
CalculateDuration_NoPause(start, end, paused) ==
    IF start = NoTime THEN 0
    ELSE ((IF end # NoTime THEN end ELSE now) - start) \div MsPerSecond

\* TrainingSession.calculateDuration, for the given fields of the session
CalculateDuration(start, end, paused) ==
    IF start = NoTime THEN 0
    ELSE ((IF end # NoTime THEN end ELSE now) - start - paused) \div MsPerSecond

\* TrainingSession.processWaterRowerData
ProcessWaterRowerData(data, name, value) ==
    CASE name = "stroke_rate" -> [data EXCEPT !.strokeRate = ParseInt16(value)]
      [] name = "kcal_watts"  -> [data EXCEPT !.power = ParseInt16(value)]
      [] name = "m_s_total"   -> [data EXCEPT !.distance = ParseInt16(value)]
      \* calories are kept in tenths of a kcal, speed in cm/s
      [] name = "total_kcal"  -> [data EXCEPT !.calories = ParseInt16(value)]
      [] name = "strokes_cnt" -> [data EXCEPT !.totalStrokes = ParseInt16(value)]
      [] name = "ms_average"  -> [data EXCEPT !.speed = ParseInt16(value)]
      [] OTHER                -> data

\* TrainingSession.scheduleDataCollection, called in state st
ScheduleDataCollection(st, pending) ==
    IF st = "active" THEN Append(pending, now + CollectionIntervalMs)
    ELSE pending

\* the TrainingDataPoint built by collectDataPoint
NewDataPoint ==
    [timestamp |-> now,
     elapsedTime |-> CalculateDuration(startTime, endTime, totalPausedTime),
     distance |-> currentData.distance, strokeRate |-> currentData.strokeRate,
     power |-> currentData.power, calories |-> currentData.calories,
     heartRate |-> currentData.heartRate, speed |-> currentData.speed,
     totalStrokes |-> currentData.totalStrokes]

\* ------------------------------------------------------------ frame codec
\* A serial line is the sequence of its characters.
HexDigits ==
    <<"0", "1", "2", "3", "4", "5", "6", "7", "8", "9",
      "A", "B", "C", "D", "E", "F">>
IsHexDigit(c) == \E i \in DOMAIN HexDigits : HexDigits[i] = c
DigitValue(c) == (CHOOSE i \in DOMAIN HexDigits : HexDigits[i] = c) - 1

\* the characters of a line joined into one string
RECURSIVE Join(_)
Join(chars) ==
    IF chars = <<>> THEN "" ELSE Head(chars) \o Join(Tail(chars))

\* parseInt(string, radix) reads the longest run of leading digits of the
\* radix and yields NaN when there is none
RECURSIVE ParseDigits(_, _, _)
ParseDigits(chars, radix, acc) ==
    IF chars = <<>> \/ ~IsHexDigit(Head(chars))
          \/ DigitValue(Head(chars)) >= radix
    THEN acc
    ELSE ParseDigits(Tail(chars), radix, acc * radix + DigitValue(Head(chars)))
\* a parseInt that takes every string for hexadecimal
ParseInt_Radix16(chars, radix) ==
    IF chars = <<>> \/ ~IsHexDigit(Head(chars))
    THEN NaN
    ELSE ParseDigits(chars, HexRadix, 0)
ParseInt(chars, radix) ==
    IF chars = <<>> \/ ~IsHexDigit(Head(chars))
          \/ DigitValue(Head(chars)) >= radix
    THEN NaN
    ELSE ParseDigits(chars, radix, 0)

\* payload digits of the three width tags of a datapoint frame
PayloadDigits == [S |-> 2, D |-> 4, T |-> 6]
\* the bytes a width tag stands for
TagBytes == [S |-> 1, D |-> 2, T |-> 3]
WidthTags == {"S", "D", "T"}

\* the datapoint pattern: ID, a width tag, three hexadecimal digits of
\* address and the payload digits of the tag
IsDatapointFrame(line) ==
    /\ Len(line) >= 6
    /\ line[1] = "I" /\ line[2] = "D"
    /\ line[3] \in WidthTags
    /\ \A i \in 4..Len(line) : IsHexDigit(line[i])
    /\ Len(line) = 6 + PayloadDigits[line[3]]

\* the groups the pattern captures
DatapointGroups(line) ==
    [tag |-> line[3],
     address |-> Join(SubSeq(line, 4, 6)),
     digits |-> SubSeq(line, 7, Len(line))]

\* FrameTypes.find(t => t.pattern.test(data)): the kind of a line
FrameType(line) ==
    IF line = <<"_", "W", "R", "_">> THEN "hardwaretype"
    ELSE IF IsDatapointFrame(line) THEN "datapoint"
    ELSE IF line # <<>> /\ Head(line) = "P" THEN "pulse"
    ELSE "other"

\* the registers of DataPoints with each declared width and radix
DataPoints ==
    {[name |-> "mph", address |-> "1A3", length |-> "D", radix |-> 10,
      value |-> 0],
     [name |-> "stroke_rate", address |-> "1A9", length |-> "S",
      radix |-> 16, value |-> 0],
     [name |-> "clock_down_dec", address |-> "05A", length |-> "A",
      radix |-> 16, value |-> 0],
     [name |-> "kcal_watts", address |-> "088", length |-> "D",
      radix |-> 16, value |-> 0],
     [name |-> "display_sec", address |-> "1E1", length |-> "S",
      radix |-> 10, value |-> 0]}
RegisterNames == {d.name : d \in DataPoints}
Register(name) == CHOOSE d \in DataPoints : d.name = name
KnownAddress(address) == \E d \in DataPoints : d.address = address
RegisterAt(address) == CHOOSE d \in DataPoints : d.address = address

\* what map() hands on for a read it cannot decode
NullElement ==
    [time |-> NoTime, name |-> "null", length |-> 0, address |-> "",
     value |-> 0]

\* the map() of datapoints$: the sample decoded from a read of type
\* datapoint, or null when the pattern does not match or the address is in
\* no register
DecodeDatapoint(read) ==
    IF ~IsDatapointFrame(read.data)
    THEN NullElement
    ELSE LET m == DatapointGroups(read.data)
         IN  IF ~KnownAddress(m.address)
             THEN NullElement
             ELSE [time |-> read.time,
                   name |-> RegisterAt(m.address).name,
                   length |-> TagBytes[m.tag],
                   address |-> m.address,
                   value |-> ParseInt(m.digits, RegisterAt(m.address).radix)]

\* JSON.stringify of a read and JSON.parse of a line of a recording
Stringify(read) == <<read.time, read.type, read.data>>
ParseLine(json) == [time |-> json[1], type |-> json[2], data |-> json[3]]

\* serial lines: two datapoints in radix 16, one in radix 10, a datapoint of
\* an address in no register, the hardware answer, a pulse and an error line
LineStrokeRate == <<"I", "D", "S", "1", "A", "9", "1", "2">>
LineWatts == <<"I", "D", "D", "0", "8", "8", "0", "0", "C", "8">>
LineMph == <<"I", "D", "D", "1", "A", "3", "0", "1", "2", "3">>
LineUnknown == <<"I", "D", "S", "1", "F", "F", "0", "0">>
LineHardware == <<"_", "W", "R", "_">>
LinePulse == <<"P", "0", "1">>
LineError == <<"E", "R", "R", "O", "R">>
Lines ==
    {LineStrokeRate, LineWatts, LineMph, LineUnknown, LineHardware,
     LinePulse, LineError}
RecordedLines == {LineStrokeRate, LinePulse}

\* ------------------------------------------------------------------- Init
\* the registers in the order of the table
RegisterOrder ==
    <<"mph", "stroke_rate", "clock_down_dec", "kcal_watts", "display_sec">>

\* the active subsets options.datapoints may name: four registers, or all
Subsets == {SubSeq(RegisterOrder, 1, 4), RegisterOrder}

\* no interval created and no request delayed
NoPolling ==
    [rate |-> 0, names |-> <<>>, due |-> NoTime, reqs |-> <<>>,
     lastWrite |-> NoTime]

Init ==
    /\ now = 0
    /\ state = "idle"
    /\ startTime = NoTime
    /\ endTime = NoTime
    /\ pauseTime = NoTime
    /\ totalPausedTime = 0
    /\ dataPoints = <<>>
    /\ currentData = EmptyData
    /\ waterRowerSubscription = FALSE
    /\ heartRateSubscription = FALSE
    /\ timers = <<>>
    /\ serialPort = "null"
    /\ requestTime = FALSE
    /\ readsCompleted = FALSE
    /\ orphanOpening = 0
    /\ orphanOpen = 0
    /\ leakedIntervals = 0
    /\ pendingReqs = 0
    /\ replay = <<>>
    /\ portName \in {DefaultPortName, ConfiguredPortName}
    /\ listing = 0
    /\ resets = 0
    /\ poll = NoPolling
    /\ published = <<>>
    /\ delivered = <<>>
    /\ returned = 0
    /\ latest = [name \in RegisterNames |-> NoValue]
    /\ file = <<>>
    /\ recordingSubscription = FALSE
    /\ leakedRecordings = 0
    /\ appended = 0
    /\ replayLast = 0
    /\ replayPrev = NoTime
    /\ waited = 0
    /\ playing = FALSE
    /\ heartRate = NoValue
    /\ hrPayload = <<>>
    /\ hrmPeripheral = FALSE
    /\ hrmConnected = FALSE
    /\ hrmDisconnecting = FALSE
    /\ hrmCharacteristic = FALSE
    /\ hrmLink = FALSE
    /\ hrmHandlers = 0
    /\ caller = "none"
    /\ attempt = "none"
    /\ abandoned = NoAttempts
    /\ rcAttempts = 0
    /\ updateValueCallback = FALSE
    /\ cachedPower = 0
    /\ cachedCadence = 0
    /\ argPower = Null
    /\ argCadence = Null
    /\ notified = <<>>
    /\ blenoState = "unknown"
    /\ advPending = 0
    /\ advertising = FALSE
    /\ servicesSet = FALSE
    /\ lastOp = Op("none", "ok")
    /\ emitted = <<>>
    /\ wrote = <<>>
    /\ observedDuration = 0
    /\ pausedWall = 0
    /\ activeTicks = 0
    /\ stoppedFrom = "none"

\* start() that does not ask the driver whether it is connected
StartGuard_NoDriverCheck == state = "idle"
\* resume() that only refuses a session that has not started
ResumeGuard_NotIdle == state # "idle"
\* collectDataPoint that does not look at the state
CollectGuard_NoState == startTime # NoTime

\* the conditions under which the four operations do not throw
StartGuard == state = "idle" /\ IsConnected
PauseGuard == state = "active"
ResumeGuard == state = "paused"
StopGuard == ~(state = "idle" \/ state = "finished")
\* the condition under which collectDataPoint does not return early
CollectGuard == state = "active" /\ startTime # NoTime

\* collectDataPoint that keeps only every 60th sample
CollectDataPoint_Every60th(points) ==
    IF CollectGuard /\ (activeTicks + 1) % 60 = 0
    THEN Append(points, NewDataPoint) ELSE points

\* TrainingSession.collectDataPoint: the session vector after the call
CollectDataPoint(points) ==
    IF CollectGuard THEN Append(points, NewDataPoint) ELSE points

\* an operation that throws before touching anything
Fails(name) ==
    /\ lastOp' = Op(name, "error")
    /\ NoRead
    /\ UNCHANGED <<ftmsVars, streamVars, hrDataVars>>
    /\ emitted' = <<>>
    /\ wrote' = <<>>
    /\ UNCHANGED <<now, sessionVars, driverVars, hrmVars, observerVars>>

\* ------------------------------------------------------- TrainingSession
\* TrainingSession.start.  The statement at lines 91-92 is read as the call
\* this.waterRower.reset() that its comment announces.
Start ==
    IF ~StartGuard THEN Fails("start")
    ELSE
        /\ state' = "active"
        /\ startTime' = now
        /\ dataPoints' = <<>>
        /\ currentData' = EmptyData
        /\ wrote' = Send(<<"RESET", "USB">>)
        /\ waterRowerSubscription' = TRUE
        /\ heartRateSubscription' = hrmConnected
        /\ timers' = ScheduleDataCollection("active", timers)
        /\ emitted' = <<"started">>
        /\ lastOp' = Op("start", "ok")
        /\ NoRead
    /\ UNCHANGED <<ftmsVars, streamVars, hrDataVars>>
        /\ UNCHANGED <<now, endTime, pauseTime, totalPausedTime, driverVars,
                       hrmVars, observerVars>>

\* TrainingSession.pause
Pause ==
    IF ~PauseGuard THEN Fails("pause")
    ELSE
        /\ state' = "paused"
        /\ pauseTime' = now
        /\ emitted' = <<"paused">>
        /\ wrote' = <<>>
        /\ lastOp' = Op("pause", "ok")
        /\ NoRead
    /\ UNCHANGED <<ftmsVars, streamVars, hrDataVars>>
        /\ UNCHANGED <<now, startTime, endTime, totalPausedTime, dataPoints,
                       currentData, waterRowerSubscription,
                       heartRateSubscription, timers, driverVars, hrmVars,
                       observerVars>>

\* TrainingSession.resume
Resume ==
    IF ~ResumeGuard THEN Fails("resume")
    ELSE
        /\ Len(timers) < MaxTimers
        /\ totalPausedTime' =
              IF pauseTime # NoTime THEN totalPausedTime + (now - pauseTime)
              ELSE totalPausedTime
        /\ state' = "active"
        /\ timers' = ScheduleDataCollection("active", timers)
        /\ emitted' = <<"resumed">>
        /\ wrote' = <<>>
        /\ lastOp' = Op("resume", "ok")
        /\ NoRead
    /\ UNCHANGED <<ftmsVars, streamVars, hrDataVars>>
        /\ UNCHANGED <<now, startTime, endTime, pauseTime, dataPoints,
                       currentData, waterRowerSubscription,
                       heartRateSubscription, driverVars, hrmVars,
                       observerVars>>

\* HeartRateMonitor.disconnect as called (and not awaited) by stop(): when a
\* peripheral is connected the transport disconnect is requested and
\* connected is cleared only after the await.
HrmDisconnectRequested == hrmDisconnecting \/ (hrmPeripheral /\ hrmConnected)

\* what TrainingSession.stop does to the session and to the monitor once
\* its guard has passed
StopFields ==
    /\ state' = "finished"
    /\ endTime' = now
    /\ waterRowerSubscription' = FALSE
    /\ heartRateSubscription' = FALSE
    /\ hrmDisconnecting' = HrmDisconnectRequested
    \* getSummary() for the 'stopped' event sees the new endTime
    /\ observedDuration' = CalculateDuration(startTime, now, totalPausedTime)
    /\ stoppedFrom' = state
    /\ UNCHANGED <<now, startTime, pauseTime, totalPausedTime, dataPoints,
                   currentData, timers, hrmPeripheral, hrmConnected,
                   connectVars, pausedWall, activeTicks>>

\* stop() that leaves the heart-rate subscription in place
StopBody_KeepsHeartRate(name) ==
    /\ state' = "finished"
    /\ endTime' = now
    /\ waterRowerSubscription' = FALSE
    /\ hrmDisconnecting' = HrmDisconnectRequested
    /\ emitted' = <<"stopped">>
    /\ observedDuration' = CalculateDuration(startTime, now, totalPausedTime)
    /\ stoppedFrom' = state
    /\ lastOp' = Op(name, "ok")
    /\ NoRead
    /\ UNCHANGED <<ftmsVars, streamVars, hrDataVars>>
    /\ UNCHANGED <<now, startTime, pauseTime, totalPausedTime, dataPoints,
                   currentData, timers, hrmPeripheral, hrmConnected,
                   connectVars, pausedWall, activeTicks,
                   heartRateSubscription>>

\* the body of TrainingSession.stop once its guard has passed
StopBody(name) ==
    /\ StopFields
    /\ emitted' = <<"stopped">>
    /\ lastOp' = Op(name, "ok")
    /\ NoRead
    /\ UNCHANGED <<ftmsVars, streamVars, hrDataVars>>

\* TrainingSession.stop
Stop ==
    IF ~StopGuard THEN Fails("stop")
    ELSE
        /\ StopBody("stop")
        /\ wrote' = <<>>
        /\ UNCHANGED driverVars

\* TrainingSession.getSummary
GetSummary ==
    /\ observedDuration' = CalculateDuration(startTime, endTime, totalPausedTime)
    /\ lastOp' = Op("getSummary", "ok")
    /\ NoRead
    /\ UNCHANGED <<ftmsVars, streamVars, hrDataVars>>
    /\ emitted' = <<>>
    /\ wrote' = <<>>
    /\ UNCHANGED <<now, sessionVars, driverVars, hrmVars, pausedWall,
                   activeTicks, stoppedFrom>>

\* the callback armed by scheduleDataCollection: collectDataPoint followed
\* by scheduleDataCollection
Tick ==
    /\ timers # <<>>
    /\ Head(timers) <= now
    /\ dataPoints' = CollectDataPoint(dataPoints)
    /\ emitted' = IF CollectGuard THEN <<"datapoint">> ELSE <<>>
    /\ observedDuration' =
          IF CollectGuard
          THEN CalculateDuration(startTime, endTime, totalPausedTime)
          ELSE observedDuration
    /\ activeTicks' = IF state = "active" THEN activeTicks + 1 ELSE activeTicks
    /\ timers' = ScheduleDataCollection(state, Tail(timers))
    /\ wrote' = <<>>
    /\ lastOp' = Op("tick", "ok")
    /\ NoRead
    /\ UNCHANGED <<ftmsVars, streamVars, hrDataVars>>
    /\ UNCHANGED <<now, state, startTime, endTime, pauseTime, totalPausedTime,
                   currentData, waterRowerSubscription, heartRateSubscription,
                   driverVars, hrmVars, pausedWall, stoppedFrom>>

\* WebServer.handleStopSession without Garmin credentials: stop(),
\* getSummary(), the FIT file, then waterRower.reset()
HandleStopSession ==
    IF ~StopGuard THEN Fails("handleStopSession")
    ELSE
        /\ StopBody("handleStopSession")
        /\ wrote' = Send(<<"RESET", "USB">>)
        /\ UNCHANGED driverVars

\* an element of datapoints$ reaches the callback subscribed in start()
S4Sample(name, value) ==
    /\ ~readsCompleted
    /\ currentData' =
          IF waterRowerSubscription /\ state = "active"
          THEN ProcessWaterRowerData(currentData, name, value)
          ELSE currentData
    /\ lastOp' = Op("s4sample", "ok")
    /\ NoRead
    /\ UNCHANGED <<ftmsVars, streamVars, hrDataVars>>
    /\ emitted' = <<>>
    /\ wrote' = <<>>
    /\ UNCHANGED <<now, state, startTime, endTime, pauseTime, totalPausedTime,
                   dataPoints, waterRowerSubscription, heartRateSubscription,
                   timers, driverVars, hrmVars, observerVars>>

\* heart-rate callback without the state check
HeartRateNext_NoState(data, bpm) == [data EXCEPT !.heartRate = bpm]

\* the heart-rate callback subscribed in start()
HeartRateNext(data, bpm) ==
    IF state = "active" THEN [data EXCEPT !.heartRate = bpm] ELSE data

\* an element of heartRate$ (HeartRateMonitor.parseHeartRateData)
HrSample(bpm) ==
    /\ hrmPeripheral
    /\ currentData' =
          IF heartRateSubscription THEN HeartRateNext(currentData, bpm)
          ELSE currentData
    /\ lastOp' = Op("hrsample", "ok")
    /\ NoRead
    /\ UNCHANGED <<ftmsVars, streamVars, hrDataVars>>
    /\ emitted' = <<>>
    /\ wrote' = <<>>
    /\ UNCHANGED <<now, state, startTime, endTime, pauseTime, totalPausedTime,
                   dataPoints, waterRowerSubscription, heartRateSubscription,
                   timers, driverVars, hrmVars, observerVars>>

\* an error notification of datapoints$ reaches the callback given in
\* start(): it is re-emitted as 'error'; the errored stream delivers no more
S4StreamError ==
    /\ waterRowerSubscription
    /\ waterRowerSubscription' = FALSE
    /\ emitted' = <<"error">>
    /\ lastOp' = Op("s4error", "ok")
    /\ NoRead
    /\ UNCHANGED <<ftmsVars, streamVars, hrDataVars>>
    /\ wrote' = <<>>
    /\ UNCHANGED <<now, state, startTime, endTime, pauseTime, totalPausedTime,
                   dataPoints, currentData, heartRateSubscription, timers,
                   driverVars, hrmVars, observerVars>>

\* an error notification of heartRate$ reaches the callback given in
\* start(): it is written to the log
HrStreamError ==
    /\ heartRateSubscription
    /\ heartRateSubscription' = FALSE
    /\ emitted' = <<>>
    /\ lastOp' = Op("hrerror", "ok")
    /\ NoRead
    /\ UNCHANGED <<ftmsVars, streamVars, hrDataVars>>
    /\ wrote' = <<>>
    /\ UNCHANGED <<now, state, startTime, endTime, pauseTime, totalPausedTime,
                   dataPoints, currentData, waterRowerSubscription, timers,
                   driverVars, hrmVars, observerVars>>

\* ------------------------------------------------------------ WaterRower
\* ports and intervals alive: the ones the driver references and the ones it
\* no longer does
PortHandles ==
    (IF serialPort \in {"opening", "open"} THEN 1 ELSE 0)
        + orphanOpening + orphanOpen
PollingTimers == (IF requestTime THEN 1 ELSE 0) + leakedIntervals

\* setupSerialPort creates the SerialPort, which opens asynchronously, and
\* stores it in this.serialPort whatever that field held before
SetupSerialPort ==
    /\ serialPort = "opening" => orphanOpening < MaxOrphans
    /\ serialPort = "open" => orphanOpen < MaxOrphans
    /\ serialPort' = "opening"
    /\ orphanOpening' =
          IF serialPort = "opening" THEN orphanOpening + 1 ELSE orphanOpening
    /\ orphanOpen' = IF serialPort = "open" THEN orphanOpen + 1 ELSE orphanOpen

\* what stays as it is while connectSerial and discoverPort run
ConnectFrame ==
    /\ emitted' = <<>>
    /\ wrote' = <<>>
    /\ NoRead
    /\ UNCHANGED <<now, sessionVars, requestTime, readsCompleted,
                   leakedIntervals, pendingReqs, replay, hrmVars, ftmsVars,
                   resets, poll, codecVars, recorderVars, hrDataVars,
                   observerVars>>

\* WaterRower.connectSerial with a configured port
ConnectSerial ==
    /\ portName # DefaultPortName
    /\ SetupSerialPort
    /\ lastOp' = Op("connectSerial", "ok")
    /\ ConnectFrame
    /\ UNCHANGED <<portName, listing>>

\* WaterRower.connectSerial with no port configured: discoverPort asks for
\* the list of ports and connectSerial returns
ConnectDiscovering ==
    /\ portName = DefaultPortName
    /\ listing < MaxPending
    /\ listing' = listing + 1
    /\ lastOp' = Op("connectSerial", "discovering")
    /\ ConnectFrame
    /\ UNCHANGED <<serialPort, orphanOpening, orphanOpen, portName>>

\* the list of ports arrives: a port of the manufacturer is configured and
\* set up; without one the callback writes a log line and nothing else
PortsListed(found) ==
    /\ listing > 0
    /\ listing' = listing - 1
    /\ IF found
       THEN /\ portName' = ConfiguredPortName
            /\ SetupSerialPort
            /\ lastOp' = Op("discoverPort", "found")
       ELSE /\ lastOp' = Op("discoverPort", "none")
            /\ UNCHANGED <<serialPort, orphanOpening, orphanOpen, portName>>
    /\ ConnectFrame

\* connectSerial called on a driver that holds no port
ConnectWhenClosed ==
    /\ serialPort = "null"
    /\ ConnectSerial

\* the 'open' handler of a port: initialize(), then the polling interval is
\* created and its handle stored over the previous one
OpenHandler(name) ==
    /\ requestTime => leakedIntervals < MaxOrphans
    /\ wrote' = Send(<<"USB">>)
    /\ requestTime' = TRUE
    /\ leakedIntervals' =
          IF requestTime THEN leakedIntervals + 1 ELSE leakedIntervals
    /\ lastOp' = Op(name, "ok")
    /\ NoRead
    /\ UNCHANGED <<ftmsVars, streamVars, hrDataVars>>
    /\ emitted' = <<>>
    /\ UNCHANGED <<now, sessionVars, readsCompleted, pendingReqs, replay,
                   hrmVars, observerVars>>

\* the port held by the driver opens
PortOpen ==
    /\ serialPort = "opening"
    /\ serialPort' = "open"
    /\ OpenHandler("open")
    /\ UNCHANGED <<orphanOpening, orphanOpen>>

\* a port the driver no longer references opens: its handler still runs
OrphanOpen ==
    /\ orphanOpening > 0
    /\ orphanOpen < MaxOrphans
    /\ orphanOpening' = orphanOpening - 1
    /\ orphanOpen' = orphanOpen + 1
    /\ OpenHandler("orphanOpen")
    /\ UNCHANGED serialPort

\* the web server's listener for the driver's close event runs only when
\* the driver emits under the key the listener was registered with
CloseListenerRuns == DriverCloseEvent = CloseListenerKey

\* close() that leaves the polling interval running
CloseBody_KeepsInterval(name, before) ==
    /\ serialPort = "opening" => orphanOpening < MaxOrphans
    /\ wrote' = Send(<<"EXIT">>)
    /\ emitted' = before \o <<"wr:close">>
    /\ readsCompleted' = TRUE
    /\ serialPort' = "null"
    /\ orphanOpening' =
          IF serialPort = "opening" THEN orphanOpening + 1 ELSE orphanOpening
    /\ requestTime' = requestTime
    /\ lastOp' = Op(name, "ok")
    /\ NoRead
    /\ UNCHANGED <<ftmsVars, streamVars, hrDataVars>>
    /\ UNCHANGED <<now, sessionVars, hrmVars, observerVars>>
    /\ UNCHANGED <<orphanOpen, leakedIntervals, pendingReqs, replay>>

\* the body of WaterRower.close; before holds the events emitted before it.
\* SerialPort.close on a port that has not opened yet only reports
\* 'Port is not open' to its callback: that port goes on opening.
CloseBody(name, before) ==
    /\ serialPort = "opening" => orphanOpening < MaxOrphans
    /\ wrote' = Send(<<"EXIT">>)
    /\ emitted' = before \o <<"wr:close">>
                         \o (IF CloseListenerRuns /\ state = "active"
                             THEN <<"stopped">> ELSE <<>>)
    /\ readsCompleted' = TRUE
    /\ serialPort' = "null"
    /\ orphanOpening' =
          IF serialPort = "opening" THEN orphanOpening + 1 ELSE orphanOpening
    /\ requestTime' = FALSE
    /\ lastOp' = Op(name, "ok")
    /\ NoRead
    /\ UNCHANGED <<ftmsVars, streamVars, hrDataVars>>
    /\ IF CloseListenerRuns /\ state = "active"
       THEN StopFields
       ELSE UNCHANGED <<sessionVars, hrmVars, observerVars>>
    /\ UNCHANGED <<now, orphanOpen, leakedIntervals, pendingReqs, replay>>

\* WaterRower.close
Close == CloseBody("close", <<>>)

\* the SIGINT handler the constructor registers: close(), and nothing else
Sigint == CloseBody("sigint", <<>>)

\* the 'error' handler of the port held by the driver
PortError ==
    /\ serialPort # "null"
    /\ CloseBody("portError", <<"wr:error">>)

\* the events a port reports when the peer hangs up
HangUpEvents == {"closed", "disconnect"}

\* the 'closed' and 'disconnect' handlers of the port held by the driver:
\* () => this.close names the method and does not call it
PortHangUp(event) ==
    /\ serialPort = "open"
    /\ serialPort' = "lost"
    /\ lastOp' = Op("hangUp", event)
    /\ emitted' = <<>>
    /\ wrote' = <<>>
    /\ NoRead
    /\ UNCHANGED <<now, sessionVars, requestTime, readsCompleted, portVars,
                   hrmVars, ftmsVars, streamVars, hrDataVars, observerVars>>

\* a driver callback that writes cmds and touches nothing else
Writes(name, cmds) ==
    /\ wrote' = Send(cmds)
    /\ lastOp' = Op(name, IF Send(cmds) = <<>> THEN "dropped" ELSE "sent")
    /\ NoRead
    /\ UNCHANGED <<ftmsVars, streamVars, hrDataVars>>
    /\ emitted' = <<>>

\* WaterRower.reset
Reset ==
    /\ Writes("reset", <<"RESET", "USB">>)
    /\ UNCHANGED <<now, sessionVars, driverVars, hrmVars, observerVars>>

\* the workout and display commands: one send each
Command(cmd) ==
    /\ Writes("command", <<cmd>>)
    /\ UNCHANGED <<now, sessionVars, driverVars, hrmVars, observerVars>>

\* WaterRower.requestDataPoints with a list of n names: one setTimeout each
RequestBody(name, n) ==
    /\ pendingReqs + n <= MaxPending
    /\ pendingReqs' = pendingReqs + n
    /\ lastOp' = Op(name, "ok")
    /\ NoRead
    /\ UNCHANGED <<ftmsVars, streamVars, hrDataVars>>
    /\ emitted' = <<>>
    /\ wrote' = <<>>
    /\ UNCHANGED <<now, sessionVars, serialPort, requestTime, readsCompleted,
                   orphanOpening, orphanOpen, leakedIntervals, replay,
                   hrmVars, observerVars>>

\* requestDataPoints called by the application
RequestDataPoints(n) == RequestBody("requestDataPoints", n)

\* a polling interval fires: requestDataPoints(options.datapoints)
PollTick(n) ==
    /\ PollingTimers > 0
    /\ RequestBody("pollTick", n)

\* the command reqValue sends for a register
RequestCommand(dataPoint) == "IR" \o dataPoint.length \o dataPoint.address

\* a delayed request of a batch fires: reqValue of one of its names sends the
\* command of the register, or nothing when no register has the name
ReqValue(name) ==
    /\ pendingReqs > 0
    /\ pendingReqs' = pendingReqs - 1
    /\ Writes("reqValue",
              IF name \in RegisterNames
              THEN <<RequestCommand(Register(name))>> ELSE <<>>)
    /\ UNCHANGED <<now, sessionVars, serialPort, requestTime, readsCompleted,
                   orphanOpening, orphanOpen, leakedIntervals, replay,
                   hrmVars, observerVars>>

\* what stays as it is in the callbacks of the timed driver
PollFrame ==
    /\ NoRead
    /\ emitted' = <<>>
    /\ UNCHANGED <<sessionVars, readsCompleted, portVars, hrmVars, ftmsVars,
                   portName, listing, resets, codecVars, recorderVars,
                   hrDataVars, observerVars>>

\* the 'open' handler with its timing: initialize(), then setInterval with
\* options.refreshRate for requestDataPoints(options.datapoints)
TimedOpen(rate, names) ==
    /\ serialPort = "opening"
    /\ ~requestTime
    /\ serialPort' = "open"
    /\ requestTime' = TRUE
    /\ wrote' = <<"USB">>
    /\ poll' = [rate |-> rate, names |-> names, due |-> now + rate,
                reqs |-> <<>>, lastWrite |-> NoTime]
    /\ lastOp' = Op("open", "ok")
    /\ PollFrame
    /\ UNCHANGED now

\* the timeouts of one requestDataPoints call on an array: the i-th name is
\* requested delayMs * i after the call, i counted from 0
Batch(names) ==
    [i \in 1..Len(names) |->
        [due |-> now + DelayMs * (i - 1), name |-> names[i]]]

\* the timer list after new timeouts are set: by due time, older first
RECURSIVE Merge(_, _)
Merge(old, new) ==
    IF old = <<>> THEN new
    ELSE IF new = <<>> THEN old
    ELSE IF Head(old).due <= Head(new).due
    THEN <<Head(old)>> \o Merge(Tail(old), new)
    ELSE <<Head(new)>> \o Merge(old, Tail(new))

\* the polling interval fires: requestDataPoints(options.datapoints) sets one
\* timeout per name
IntervalFires ==
    /\ requestTime
    /\ poll.rate > 0
    /\ poll.due = now
    /\ poll' = [poll EXCEPT !.due = now + poll.rate,
                            !.reqs = Merge(poll.reqs, Batch(poll.names))]
    /\ wrote' = <<>>
    /\ lastOp' = Op("pollTick", "ok")
    /\ PollFrame
    /\ UNCHANGED <<now, serialPort, requestTime>>

\* a timeout of requestDataPoints fires: reqValue sends the IR command of
\* the register
RequestFires ==
    /\ poll.reqs # <<>>
    /\ Head(poll.reqs).due = now
    /\ wrote' = IF Head(poll.reqs).name \in RegisterNames
              THEN Send(<<RequestCommand(Register(Head(poll.reqs).name))>>)
              ELSE <<>>
    /\ poll' = [poll EXCEPT !.reqs = Tail(poll.reqs),
                            !.lastWrite = IF wrote' # <<>> THEN now ELSE @]
    /\ lastOp' = Op("reqValue", IF wrote' = <<>> THEN "dropped" ELSE "sent")
    /\ PollFrame
    /\ UNCHANGED <<now, serialPort, requestTime>>

\* the time of the next timer of the driver
NextTimer ==
    IF poll.reqs = <<>> THEN poll.due
    ELSE IF Head(poll.reqs).due <= poll.due THEN Head(poll.reqs).due
    ELSE poll.due

\* the wall clock moves on to the next timer when none is due
PollClock ==
    /\ poll.rate > 0
    /\ NextTimer > now
    /\ NextTimer <= StepMs * MaxClockSteps
    /\ now' = NextTimer
    /\ wrote' = <<>>
    /\ lastOp' = Op("clock", "ok")
    /\ PollFrame
    /\ UNCHANGED <<serialPort, requestTime, poll>>

\* the live subscriptions of startRecording
Recorders == (IF recordingSubscription THEN 1 ELSE 0) + leakedRecordings

\* what reads$.next(read) does in its subscribers: the subscriber of
\* datapoints$ receives what map() makes of a datapoint read, a
\* hardwaretype read emits 'initialized', and every live recording appends
\* a read that is no pulse to the file; a completed subject passes nothing on
ReadsNext(read) ==
    /\ published' = <<read>>
    /\ IF readsCompleted
       THEN /\ delivered' = <<>>
            /\ emitted' = <<>>
            /\ appended' = 0
            /\ UNCHANGED <<latest, file>>
       ELSE /\ delivered' = IF read.type = "datapoint"
                            THEN <<DecodeDatapoint(read)>> ELSE <<>>
            /\ latest' =
                  IF read.type = "datapoint"
                        /\ DecodeDatapoint(read) # NullElement
                  THEN [latest EXCEPT ![DecodeDatapoint(read).name] =
                                          DecodeDatapoint(read).value]
                  ELSE latest
            /\ emitted' = IF read.type = "hardwaretype"
                          THEN <<"wr:initialized">> ELSE <<>>
            /\ appended' = IF read.type # "pulse" THEN Recorders ELSE 0
            /\ file' = file \o Times(appended', Stringify(read))
            /\ Len(file') <= MaxFile

\* the 'data' handler of a port: the line is classified and published
PortData(line) ==
    /\ serialPort = "open" \/ orphanOpen > 0
    /\ ReadsNext([time |-> now, type |-> FrameType(line), data |-> line])
    /\ waited' = 0
    /\ lastOp' = Op("data", IF readsCompleted THEN "dropped" ELSE "delivered")
    /\ wrote' = <<>>
    /\ UNCHANGED <<now, sessionVars, driverVars, hrmVars, ftmsVars, portName,
                   listing, resets, poll, returned, recordingSubscription,
                   leakedRecordings,
                   replayLast, replayPrev, playing, hrDataVars, observerVars>>

\* the commands the start-up handler of startWorkout and startRecording
\* sends on an 'initialized' signal: reset() writes RESET and then the USB
\* handshake of initialize()
StartupCommands == <<"RESET", "USB">>

\* the 'data' handler of a port with the start-up handler registered on
\* 'initialized': a hardware-type line that is passed on makes the handler
\* call reset() inside the emit
StartupData(line) ==
    /\ serialPort = "open" \/ orphanOpen > 0
    /\ ReadsNext([time |-> now, type |-> FrameType(line), data |-> line])
    /\ waited' = 0
    /\ lastOp' = Op("data", IF readsCompleted THEN "dropped" ELSE "delivered")
    /\ resets' = IF ~readsCompleted /\ FrameType(line) = "hardwaretype"
               THEN resets + 1 ELSE resets
    /\ resets' <= MaxResets
    /\ wrote' = IF resets' # resets THEN Send(StartupCommands) ELSE <<>>
    /\ UNCHANGED <<now, sessionVars, driverVars, hrmVars, ftmsVars, portName,
                   listing, poll, returned, recordingSubscription,
                   leakedRecordings,
                   replayLast, replayPrev, playing, hrDataVars, observerVars>>

\* WaterRower.readDataPoints(name): the value field of the register, 0 when
\* no register has the name
ReadDataPoints(name) ==
    /\ returned' = IF name \in RegisterNames THEN Register(name).value ELSE 0
    /\ lastOp' = Op("readDataPoints", name)
    /\ emitted' = <<>>
    /\ wrote' = <<>>
    /\ NoRead
    /\ UNCHANGED <<now, sessionVars, driverVars, hrmVars, ftmsVars, portName,
                   listing, resets, poll, latest, recorderVars, hrDataVars,
                   observerVars>>

\* what stays as it is in startRecording and stopRecording
RecorderFrame ==
    /\ emitted' = <<>>
    /\ wrote' = <<>>
    /\ NoRead
    /\ UNCHANGED <<now, sessionVars, driverVars, hrmVars, ftmsVars, portName,
                   listing, resets, poll, codecVars, replayLast, replayPrev,
                   playing,
                   hrDataVars, observerVars>>

\* WaterRower.startRecording: an existing file is removed and a new
\* subscription is stored in the field, whatever the field held before
StartRecording ==
    /\ recordingSubscription => leakedRecordings < MaxOrphans
    /\ file' = <<>>
    /\ leakedRecordings' = IF recordingSubscription
                           THEN leakedRecordings + 1 ELSE leakedRecordings
    /\ recordingSubscription' = ~readsCompleted
    /\ lastOp' = Op("startRecording", "ok")
    /\ RecorderFrame

\* WaterRower.stopRecording: the subscription in the field is unsubscribed
StopRecording ==
    /\ recordingSubscription' = FALSE
    /\ lastOp' = Op("stopRecording", "ok")
    /\ RecorderFrame
    /\ UNCHANGED <<file, leakedRecordings>>

\* the delays of playRecording: each read waits for the time between its
\* timestamp and the one before it, the first for none
TimeSpans_FromZero(lines) ==
    [i \in DOMAIN lines |->
        lines[i].time - (IF i = 1 THEN 0 ELSE lines[i - 1].time)]
TimeSpans(lines) ==
    [i \in DOMAIN lines |->
        lines[i].time - (IF i = 1 THEN lines[1].time ELSE lines[i - 1].time)]

\* playRecording once the file is read: replay$ is subscribed to
PlayLines(lines) ==
    /\ replay = <<>>
    /\ replay' = [i \in DOMAIN lines |->
                     [delay |-> TimeSpans(lines)[i], read |-> lines[i]]]
    /\ replayLast' = now
    /\ replayPrev' = NoTime
    /\ playing' = TRUE
    /\ NoRead
    /\ lastOp' = Op("playRecording", "ok")
    /\ emitted' = <<>>
    /\ wrote' = <<>>
    /\ UNCHANGED <<now, sessionVars, serialPort, requestTime, readsCompleted,
                   orphanOpening, orphanOpen, leakedIntervals, pendingReqs,
                   hrmVars, ftmsVars, portName, listing, resets, poll,
                   codecVars, file,
                   recordingSubscription, leakedRecordings, hrDataVars,
                   observerVars>>

\* a read as a recording file holds it: an error line stamped at the start
RecordedRead == [time |-> 0, type |-> "other", data |-> LineError]

\* WaterRower.playRecording of a recording with n reads
PlayRecording(n) == PlayLines(Times(n, RecordedRead))

\* WaterRower.playRecording of the file the recorder wrote: readFileSync
\* throws when there is no file
PlayFile ==
    IF file = <<>>
    THEN /\ lastOp' = Op("playRecording", "throws")
         /\ emitted' = <<>>
         /\ wrote' = <<>>
         /\ NoRead
         /\ UNCHANGED <<now, sessionVars, driverVars, hrmVars, ftmsVars,
                        streamVars, hrDataVars, observerVars>>
    ELSE PlayLines([i \in DOMAIN file |-> ParseLine(file[i])])

\* the next read of the recording is due: reads$.next, which a completed
\* subject does not pass on; after the last read the promise resolves
ReplayDue == replayLast + Head(replay).delay
ReplayNext ==
    /\ replay # <<>>
    /\ now >= ReplayDue
    /\ replay' = Tail(replay)
    /\ waited' = now - replayLast
    /\ replayLast' = IF Tail(replay) = <<>> THEN 0 ELSE now
    /\ replayPrev' = IF Tail(replay) = <<>> THEN NoTime
                     ELSE Head(replay).read.time
    /\ playing' = (Tail(replay) # <<>>)
    /\ ReadsNext(Head(replay).read)
    /\ lastOp' = Op("replay", IF readsCompleted THEN "dropped" ELSE "delivered")
    /\ wrote' = <<>>
    /\ UNCHANGED <<now, sessionVars, serialPort, requestTime, readsCompleted,
                   orphanOpening, orphanOpen, leakedIntervals, pendingReqs,
                   hrmVars, ftmsVars, portName, listing, resets, poll, returned,
                   recordingSubscription, leakedRecordings, hrDataVars,
                   observerVars>>

\* ------------------------------------------------------ HeartRateMonitor
\* HeartRateMonitor.connect running to its end without interruption:
\* subscribed to 0x2A37
HrmConnect ==
    /\ ~hrmConnected
    /\ ~hrmPeripheral
    /\ ~hrmLink
    /\ caller = "none"
    /\ hrmPeripheral' = TRUE
    /\ hrmConnected' = TRUE
    /\ hrmCharacteristic' = TRUE
    /\ hrmLink' = TRUE
    /\ hrmHandlers' = hrmHandlers + 1
    /\ hrmDisconnecting' = FALSE
    /\ lastOp' = Op("hrmConnect", "ok")
    /\ NoRead
    /\ UNCHANGED <<ftmsVars, streamVars, hrDataVars>>
    /\ emitted' = <<"hrm:connected">>
    /\ wrote' = <<>>
    /\ UNCHANGED <<now, sessionVars, driverVars, caller, attempt, abandoned,
                   rcAttempts, observerVars>>

\* n copies of event e

\* the transport goes down, after a requested disconnect or a drop: every
\* 'disconnect' handler registered on the peripheral runs, once
HrmPeripheralDisconnect ==
    /\ hrmLink
    /\ hrmLink' = FALSE
    /\ hrmHandlers' = 0
    /\ hrmPeripheral' = IF hrmHandlers > 0 THEN FALSE ELSE hrmPeripheral
    /\ hrmConnected' = IF hrmHandlers > 0 THEN FALSE ELSE hrmConnected
    /\ hrmCharacteristic' = IF hrmHandlers > 0 THEN FALSE ELSE hrmCharacteristic
    /\ hrmDisconnecting' = FALSE
    /\ lastOp' = Op("hrmDisconnected", "ok")
    /\ NoRead
    /\ UNCHANGED <<ftmsVars, streamVars, hrDataVars>>
    /\ emitted' = Times(hrmHandlers, "hrm:disconnected")
    /\ wrote' = <<>>
    /\ UNCHANGED <<now, sessionVars, driverVars, caller, attempt, abandoned,
                   rcAttempts, observerVars>>

\* what stays as it is in every callback of the heart-rate monitor
\* bit 0 of the flags selects the 16-bit format; first a reading of bit 1
Is16Bit_Bit1(flags) == (flags \div 2) % 2 = 1
Is16Bit(flags) == flags % 2 = 1

\* readUInt8(1) or readUInt16LE(1) of the notification
ParseHeartRateData(data) ==
    IF Is16Bit(data[1]) THEN data[2] + Byte * data[3] ELSE data[2]

\* the reads stay inside the buffer
InsideBuffer(data) == Len(data) >= (IF Is16Bit(data[1]) THEN 3 ELSE 2)

\* the 'data' handler of the characteristic: parseHeartRateData publishes
\* the rate on heartRate$; a read outside the buffer throws
HrmData(data) ==
    /\ hrmCharacteristic
    /\ hrmLink
    /\ hrPayload' = data
    /\ IF InsideBuffer(data)
       THEN /\ heartRate' = ParseHeartRateData(data)
            /\ lastOp' = Op("hrmData", "ok")
       ELSE /\ lastOp' = Op("hrmData", "throws")
            /\ UNCHANGED heartRate
    /\ emitted' = <<>>
    /\ wrote' = <<>>
    /\ NoRead
    /\ UNCHANGED <<now, sessionVars, driverVars, hrmVars, ftmsVars, streamVars,
                   observerVars>>

HrmFrame ==
    /\ wrote' = <<>>
    /\ NoRead
    /\ UNCHANGED <<now, sessionVars, driverVars, ftmsVars, streamVars,
                   hrDataVars, observerVars, hrmDisconnecting>>

Phases == {"linking", "discovering", "subscribing"}
AbandonedCount ==
    abandoned.linking + abandoned.discovering + abandoned.subscribing

\* a loop head that allows one attempt more
NextAttempt_OneMore ==
    IF rcAttempts <= MaxAttempts
    THEN /\ rcAttempts' = rcAttempts + 1
         /\ IF hrmConnected
            THEN /\ caller' = "none"
                 /\ attempt' = "none"
                 /\ lastOp' = Op("reconnectAsync", "ok")
            ELSE /\ caller' = caller
                 /\ attempt' = "linking"
                 /\ lastOp' = Op("reconnectAsync", "attempt")
    ELSE /\ rcAttempts' = rcAttempts
         /\ caller' = "none"
         /\ attempt' = "none"
         /\ lastOp' = Op("reconnectAsync", "gaveUp")

\* reconnectAsync at the head of its loop, rcAttempts calls of connectAsync
\* made so far: the next call, which returns at once when already connected,
\* or the end of the loop
NextAttempt ==
    IF rcAttempts < MaxAttempts
    THEN /\ rcAttempts' = rcAttempts + 1
         /\ IF hrmConnected
            THEN /\ caller' = "none"
                 /\ attempt' = "none"
                 /\ lastOp' = Op("reconnectAsync", "ok")
            ELSE /\ caller' = caller
                 /\ attempt' = "linking"
                 /\ lastOp' = Op("reconnectAsync", "attempt")
    ELSE /\ rcAttempts' = rcAttempts
         /\ caller' = "none"
         /\ attempt' = "none"
         /\ lastOp' = Op("reconnectAsync", "gaveUp")

\* the awaited connectAsync settles: its caller gets the result, and
\* reconnectAsync goes round its loop on a failure
Settle(ok, err) ==
    IF caller = "reconnect"
    THEN IF ok
         THEN /\ caller' = "none"
              /\ attempt' = "none"
              /\ rcAttempts' = rcAttempts
              /\ lastOp' = Op("reconnectAsync", "ok")
         ELSE NextAttempt
    ELSE /\ caller' = "none"
         /\ attempt' = "none"
         /\ rcAttempts' = rcAttempts
         /\ lastOp' = Op("connectAsync", IF ok THEN "ok" ELSE err)

\* a connectAsync call, awaited (aw) or not, stands in phase ph
InPhase(aw, ph) == IF aw THEN attempt = ph ELSE abandoned[ph] > 0

\* that call moves from phase from to phase to
Advance(aw, from, to) ==
    /\ IF aw
       THEN attempt' = to /\ abandoned' = abandoned
       ELSE /\ abandoned' = [abandoned EXCEPT ![from] = @ - 1, ![to] = @ + 1]
            /\ attempt' = attempt
    /\ lastOp' = Op(to, IF aw THEN "awaited" ELSE "abandoned")
    /\ UNCHANGED <<caller, rcAttempts>>

\* that call ends in phase from
Finish(aw, from, ok, err) ==
    IF aw THEN Settle(ok, err) /\ abandoned' = abandoned
    ELSE /\ abandoned' = [abandoned EXCEPT ![from] = @ - 1]
         /\ lastOp' = Op("abandoned", IF ok THEN "ok" ELSE err)
         /\ UNCHANGED <<caller, attempt, rcAttempts>>

\* HeartRateMonitor.connectAsync called and awaited by the application
HrmConnectAsync ==
    /\ caller = "none"
    /\ IF hrmConnected
       THEN /\ lastOp' = Op("connectAsync", "ok")
            /\ UNCHANGED <<caller, attempt>>
       ELSE /\ lastOp' = Op("connectAsync", "pending")
            /\ caller' = "connect"
            /\ attempt' = "linking"
    /\ emitted' = <<>>
    /\ HrmFrame
    /\ UNCHANGED <<hrmPeripheral, hrmConnected, hrmCharacteristic, hrmLink,
                   hrmHandlers, abandoned, rcAttempts>>

\* HeartRateMonitor.reconnectAsync called, with or without a saved device id
HrmReconnectAsync(saved) ==
    /\ caller = "none"
    /\ IF saved
       THEN /\ lastOp' = Op("reconnectAsync", "pending")
            /\ caller' = "reconnect"
            /\ attempt' = "power"
            /\ rcAttempts' = 0
       ELSE /\ lastOp' = Op("reconnectAsync", "ok")
            /\ UNCHANGED <<caller, attempt, rcAttempts>>
    /\ emitted' = <<>>
    /\ HrmFrame
    /\ UNCHANGED <<hrmPeripheral, hrmConnected, hrmCharacteristic, hrmLink,
                   hrmHandlers, abandoned>>

\* noble.waitForPoweredOnAsync resolves in reconnectAsync: the loop starts
PoweredOn ==
    /\ caller = "reconnect"
    /\ attempt = "power"
    /\ NextAttempt
    /\ emitted' = <<>>
    /\ HrmFrame
    /\ UNCHANGED <<hrmPeripheral, hrmConnected, hrmCharacteristic, hrmLink,
                   hrmHandlers, abandoned>>

\* noble.connectAsync settles; on success connectToPeripheralAsync stores the
\* peripheral and registers its 'disconnect' handler before it awaits again
LinkSettles(aw, ok) ==
    /\ InPhase(aw, "linking")
    /\ IF ok
       THEN /\ hrmHandlers < MaxHandlers
            /\ hrmPeripheral' = TRUE
            /\ hrmHandlers' = hrmHandlers + 1
            /\ hrmLink' = TRUE
            /\ Advance(aw, "linking", "discovering")
       ELSE /\ Finish(aw, "linking", FALSE, "connect failed")
            /\ UNCHANGED <<hrmPeripheral, hrmHandlers, hrmLink>>
    /\ emitted' = <<>>
    /\ HrmFrame
    /\ UNCHANGED <<hrmConnected, hrmCharacteristic>>

\* discoverAllServicesAndCharacteristicsAsync settles: the measurement
\* characteristic is found, is missing, or the discovery fails
Discovered(aw, outcome) ==
    /\ InPhase(aw, "discovering")
    /\ outcome # "rejected" => hrmLink
    /\ CASE outcome = "found" ->
              /\ hrmCharacteristic' = TRUE
              /\ Advance(aw, "discovering", "subscribing")
         [] outcome = "missing" ->
              /\ hrmCharacteristic' = FALSE
              /\ Finish(aw, "discovering", FALSE, "not found")
         [] OTHER ->
              /\ hrmCharacteristic' = hrmCharacteristic
              /\ Finish(aw, "discovering", FALSE, "discover failed")
    /\ emitted' = <<>>
    /\ HrmFrame
    /\ UNCHANGED <<hrmPeripheral, hrmConnected, hrmLink, hrmHandlers>>

\* characteristic.subscribeAsync settles; on success the data handler is
\* attached to this.characteristic and the monitor is connected
SubscribeSettles(aw, ok) ==
    /\ InPhase(aw, "subscribing")
    /\ ok => hrmLink
    /\ IF ok /\ hrmCharacteristic
       THEN /\ hrmConnected' = TRUE
            /\ emitted' = <<"hrm:connected">>
            /\ Finish(aw, "subscribing", TRUE, "")
       ELSE /\ hrmConnected' = hrmConnected
            /\ emitted' = <<>>
            /\ Finish(aw, "subscribing", FALSE, "subscribe failed")
    /\ HrmFrame
    /\ UNCHANGED <<hrmPeripheral, hrmCharacteristic, hrmLink, hrmHandlers>>

\* the 30-second timer of Promise.race fires first: reconnectAsync stops
\* waiting for the call, which goes on running, and makes the next one
Timeout ==
    /\ caller = "reconnect"
    /\ attempt \in Phases
    /\ AbandonedCount < MaxAbandoned
    /\ abandoned' = [abandoned EXCEPT ![attempt] = @ + 1]
    /\ NextAttempt
    /\ emitted' = <<>>
    /\ HrmFrame
    /\ UNCHANGED <<hrmPeripheral, hrmConnected, hrmCharacteristic, hrmLink,
                   hrmHandlers>>

\* ------------------------------------------- IndoorBikeDataCharacteristic
\* what stays as it is in every callback of the characteristic
FtmsFrame ==
    /\ emitted' = <<>>
    /\ wrote' = <<>>
    /\ NoRead
    /\ UNCHANGED <<now, sessionVars, driverVars, hrmVars, observerVars,
                   adapterVars, streamVars, hrDataVars>>

\* writeUInt16LE of a value: the fraction is dropped
WriteUInt16(num, den) == (num \div den) % UInt16

\* the six bytes of a notification, as its three 16-bit fields
Payload(cadence, power) ==
    [flags |-> IndoorBikeFlags,
     cadence |-> WriteUInt16(cadence * CadenceFactor, 1),
     power |-> WriteUInt16(power * PowerFactorNum, PowerFactorDen)]

\* IndoorBikeDataCharacteristic.onSubscribe
OnSubscribe ==
    /\ updateValueCallback' = TRUE
    /\ lastOp' = Op("onSubscribe", "ok")
    /\ FtmsFrame
    /\ UNCHANGED <<cachedPower, cachedCadence, argPower, argCadence, notified>>

\* IndoorBikeDataCharacteristic.onUnsubscribe
OnUnsubscribe ==
    /\ updateValueCallback' = FALSE
    /\ lastOp' = Op("onUnsubscribe", "ok")
    /\ FtmsFrame
    /\ UNCHANGED <<cachedPower, cachedCadence, argPower, argCadence, notified>>

\* the power that updateData keeps: the argument, the cached value when the
\* argument is absent, and the cached value again when the power is 0 while
\* the cadence is positive
KeptPower(power, cadence) ==
    LET c == IF cadence = Null THEN cachedCadence ELSE cadence
        w == IF power = Null THEN cachedPower ELSE power
    IN  IF w = 0 /\ c > 0 THEN cachedPower ELSE w

\* the cadence that updateData keeps
KeptCadence(cadence) == IF cadence = Null THEN cachedCadence ELSE cadence

\* IndoorBikeDataCharacteristic.updateData
UpdateData(power, cadence) ==
    /\ argPower' = power
    /\ argCadence' = cadence
    /\ IF ~updateValueCallback
       THEN /\ notified' = <<>>
            /\ UNCHANGED <<cachedPower, cachedCadence>>
       ELSE /\ cachedPower' = KeptPower(power, cadence)
            /\ cachedCadence' = KeptCadence(cadence)
            /\ notified' = <<Payload(KeptCadence(cadence),
                                     KeptPower(power, cadence))>>
    /\ lastOp' = Op("updateData", "ok")
    /\ FtmsFrame
    /\ UNCHANGED updateValueCallback

\* the two bytes writeUInt16LE stores, low byte first
WriteUInt16LE(v) == <<v % Byte, v \div Byte>>

\* the Buffer handed to the update callback
Bytes(p) ==
    WriteUInt16LE(p.flags) \o WriteUInt16LE(p.cadence) \o WriteUInt16LE(p.power)

\* ------------------------------------------------------------------ startBLE
\* the subscriber of datapoints$: stroke_rate becomes the cadence, kcal_watts
\* the power, every other element is passed over
BleTap(name, value) ==
    IF name = "stroke_rate"
    THEN UpdateData(Null, value * StrokeRateFactor)
    ELSE IF name = "kcal_watts"
    THEN UpdateData(value, Null)
    ELSE /\ notified' = <<>>
         /\ lastOp' = Op("tap", "ignored")
         /\ FtmsFrame
         /\ UNCHANGED <<updateValueCallback, cachedPower, cachedCadence,
                        argPower, argCadence>>

\* what stays as it is in every callback of the adapter
AdapterFrame ==
    /\ emitted' = <<>>
    /\ wrote' = <<>>
    /\ NoRead
    /\ UNCHANGED <<now, sessionVars, driverVars, hrmVars, observerVars,
                   charVars, streamVars, hrDataVars>>

\* bleno.on('stateChange'): poweredOn calls startAdvertising, whose answer
\* arrives later as 'advertisingStart'; every other state calls stopAdvertising
StateChange(st) ==
    /\ blenoState' = st
    /\ IF st = "poweredOn"
       THEN /\ advPending < MaxAdvPending
            /\ advPending' = advPending + 1
            /\ lastOp' = Op("stateChange", "startAdvertising")
            /\ UNCHANGED advertising
       ELSE /\ advertising' = FALSE
            /\ lastOp' = Op("stateChange", "stopAdvertising")
            /\ UNCHANGED advPending
    /\ AdapterFrame
    /\ UNCHANGED servicesSet

\* bleno.on('advertisingStart'): with an error nothing is done, without one
\* the service is registered through setServices
AdvertisingStart(error) ==
    /\ advPending > 0
    /\ advPending' = advPending - 1
    /\ IF error
       THEN /\ lastOp' = Op("advertisingStart", "error")
            /\ UNCHANGED <<advertising, servicesSet>>
       ELSE /\ advertising' = TRUE
            /\ servicesSet' = TRUE
            /\ lastOp' = Op("advertisingStart", "setServices")
    /\ AdapterFrame
    /\ UNCHANGED blenoState

\* ------------------------------------------------------------------ time
\* the wall clock advances; a timeout that is due runs first
AdvanceClock ==
    /\ now + StepMs <= StepMs * MaxClockSteps
    /\ IF timers = <<>> THEN TRUE ELSE Head(timers) > now
    /\ IF replay = <<>> THEN TRUE ELSE ReplayDue > now
    /\ now' = now + StepMs
    /\ pausedWall' = IF state = "paused" THEN pausedWall + StepMs ELSE pausedWall
    /\ lastOp' = Op("clock", "ok")
    /\ NoRead
    /\ UNCHANGED <<ftmsVars, streamVars, hrDataVars>>
    /\ emitted' = <<>>
    /\ wrote' = <<>>
    /\ UNCHANGED <<sessionVars, driverVars, hrmVars, observedDuration,
                   activeTicks, stoppedFrom>>

\* the session under the wall clock: no telemetry arrives
Next ==
    \/ Start
    \/ Pause
    \/ Resume
    \/ Stop
    \/ GetSummary
    \/ Tick
    \/ ConnectWhenClosed
    \/ PortOpen
    \/ AdvanceClock

Spec == Init /\ [][Next]_vars

\* the session and its two sources with the wall clock standing still
NextData ==
    \/ Start
    \/ Pause
    \/ Resume
    \/ Stop
    \/ HandleStopSession
    \/ \E name \in SampleNames, value \in SampleValues : S4Sample(name, value)
    \/ \E bpm \in HeartRates : HrSample(bpm)
    \/ S4StreamError
    \/ HrStreamError
    \/ ConnectWhenClosed
    \/ PortOpen
    \/ Close
    \/ PortError
    \/ HrmConnect
    \/ HrmPeripheralDisconnect

SpecData == Init /\ [][NextData]_vars

\* the driver alone: connecting, polling, replaying and closing in any order
NextDriver ==
    \/ ConnectSerial
    \/ PortOpen
    \/ OrphanOpen
    \/ Close
    \/ PortError
    \/ Reset
    \/ \E cmd \in Commands : Command(cmd)
    \/ \E n \in 1..MaxPending : RequestDataPoints(n)
    \/ \E n \in 1..MaxPending : PollTick(n)
    \/ \E name \in RegisterNames \cup {"unknown"} : ReqValue(name)
    \/ ConnectDiscovering
    \/ \E found \in BOOLEAN : PortsListed(found)
    \/ \E event \in HangUpEvents : PortHangUp(event)
    \/ \E n \in 1..MaxPending : PlayRecording(n)
    \/ ReplayNext

SpecDriver == Init /\ [][NextDriver]_vars

\* the Indoor Bike Data characteristic alone
NextFtms ==
    \/ OnSubscribe
    \/ OnUnsubscribe
    \/ \E power \in Powers \cup {Null}, cadence \in Cadences \cup {Null} :
          UpdateData(power, cadence)

SpecFtms == Init /\ [][NextFtms]_vars

\* the peripheral as startBLE wires it: the adapter, the characteristic and
\* the subscriber of datapoints$
NextBle ==
    \/ OnSubscribe
    \/ OnUnsubscribe
    \/ \E value \in StrokeRates : BleTap("stroke_rate", value)
    \/ \E value \in Watts : BleTap("kcal_watts", value)
    \/ \E value \in SampleValues : BleTap("distance", value)
    \/ \E st \in AdapterStates : StateChange(st)
    \/ \E error \in BOOLEAN : AdvertisingStart(error)

SpecBle == Init /\ [][NextBle]_vars

\* the driver decoding what the rower sends
NextCodec ==
    \/ ConnectWhenClosed
    \/ PortOpen
    \/ Close
    \/ \E line \in Lines : PortData(line)
    \/ \E name \in RegisterNames \cup {"unknown"} : ReadDataPoints(name)

SpecCodec == Init /\ [][NextCodec]_vars

\* the driver as startWorkout wires it: the start-up handler answers every
\* 'initialized' signal, the rower answers on the port
NextStartup ==
    \/ ConnectWhenClosed
    \/ PortOpen
    \/ Close
    \/ \E line \in Lines : StartupData(line)
    \/ \E name \in RegisterNames \cup {"unknown"} : ReadDataPoints(name)

SpecStartup == Init /\ [][NextStartup]_vars

\* the driver polling under the wall clock
NextPoll ==
    \/ ConnectWhenClosed
    \/ \E rate \in RefreshRates, names \in Subsets : TimedOpen(rate, names)
    \/ IntervalFires
    \/ RequestFires
    \/ PollClock

SpecPoll == Init /\ [][NextPoll]_vars

\* the process of startWebServer until the interrupt signal: the session,
\* the heart-rate monitor and the driver
NextShutdown ==
    \/ Start
    \/ Pause
    \/ Resume
    \/ Stop
    \/ ConnectWhenClosed
    \/ PortOpen
    \/ HrmConnect
    \/ Sigint

SpecShutdown == Init /\ [][NextShutdown]_vars

\* the driver recording and replaying under the wall clock
NextRecord ==
    \/ ConnectWhenClosed
    \/ PortOpen
    \/ \E line \in RecordedLines : PortData(line)
    \/ StartRecording
    \/ StopRecording
    \/ PlayFile
    \/ ReplayNext
    \/ AdvanceClock

SpecRecord == Init /\ [][NextRecord]_vars

\* the heart-rate monitor delivering notifications
NextHrmData ==
    \/ HrmConnect
    \/ HrmPeripheralDisconnect
    \/ \E data \in HrPayloads : HrmData(data)

SpecHrmData == Init /\ [][NextHrmData]_vars

\* the steps that settle the connectAsync call somebody is waiting for
AwaitedStep ==
    \/ PoweredOn
    \/ \E ok \in BOOLEAN : LinkSettles(TRUE, ok)
    \/ \E outcome \in {"found", "missing", "rejected"} :
          Discovered(TRUE, outcome)
    \/ \E ok \in BOOLEAN : SubscribeSettles(TRUE, ok)
    \/ Timeout

\* the steps of the calls nobody is waiting for any more
AbandonedStep ==
    \/ \E ok \in BOOLEAN : LinkSettles(FALSE, ok)
    \/ \E outcome \in {"found", "missing", "rejected"} :
          Discovered(FALSE, outcome)
    \/ \E ok \in BOOLEAN : SubscribeSettles(FALSE, ok)

\* the heart-rate monitor alone
NextHrm ==
    \/ HrmConnectAsync
    \/ \E saved \in BOOLEAN : HrmReconnectAsync(saved)
    \/ AwaitedStep
    \/ AbandonedStep
    \/ HrmPeripheralDisconnect

SpecHrm == Init /\ [][NextHrm]_vars

\* every promise and timer that reconnectAsync waits for settles in the end
SpecHrmFair == SpecHrm /\ WF_vars(AwaitedStep)

TypeOK ==
    /\ state \in {"idle", "active", "paused", "finished"}
    /\ serialPort \in {"null", "opening", "open", "lost"}
    /\ now \in 0..(StepMs * MaxClockSteps)
    /\ orphanOpening \in 0..MaxOrphans
    /\ orphanOpen \in 0..MaxOrphans
    /\ leakedIntervals \in 0..MaxOrphans
    /\ pendingReqs \in 0..MaxPending
    /\ Len(replay) \in 0..(MaxPending + MaxFile)
    /\ listing \in 0..MaxPending
    /\ resets \in 0..MaxResets
    /\ poll.rate \in RefreshRates \cup {0}
    /\ poll.names \in Subsets \cup {<<>>}
    /\ poll.lastWrite \in {NoTime} \cup 0..(StepMs * MaxClockSteps)
    /\ Len(file) \in 0..MaxFile
    /\ leakedRecordings \in 0..MaxOrphans
    /\ hrmHandlers \in 0..MaxHandlers
    /\ caller \in {"none", "connect", "reconnect"}
    /\ attempt \in Phases \cup {"none", "power"}
    /\ AbandonedCount \in 0..MaxAbandoned
    /\ rcAttempts \in 0..MaxAttempts
    /\ cachedPower \in Nat
    /\ cachedCadence \in Nat
    /\ blenoState \in AdapterStates \cup {"unknown"}
    /\ advPending \in 0..MaxAdvPending

\* ------------------------------------------------------------ properties
SessionOps == {"start", "pause", "resume", "stop"}

LegalTransitions ==
    {<<"idle", "start", "active">>, <<"active", "pause", "paused">>,
     <<"paused", "resume", "active">>, <<"active", "stop", "finished">>,
     <<"paused", "stop", "finished">>}

\* C1: the state changes only along idle->active (start), active->paused
\* (pause), paused->active (resume) and active/paused->finished (stop); no
\* operation changes it once it is finished.
C1_LegalTransitions ==
    [][state' # state => <<state, lastOp'.op, state'>> \in LegalTransitions]_vars

\* an operation was refused on a finished session that had been paused
C1_Witness ==
    /\ state = "finished"
    /\ stoppedFrom = "paused"
    /\ lastOp = Op("resume", "error")

\* the call named op is outside its legal state
Illegal(op) ==
    CASE op = "start"  -> state # "idle" \/ serialPort # "open"
      [] op = "pause"  -> state # "active"
      [] op = "resume" -> state # "paused"
      [] op = "stop"   -> state \in {"idle", "finished"}

\* C2: start/pause/resume/stop called outside its legal state fails with an
\* error and changes nothing: no field of the session, no event, no timer,
\* no write to the driver.
C2_IllegalCallHasNoEffect ==
    [][\A op \in SessionOps :
          (lastOp'.op = op /\ Illegal(op)) =>
              /\ lastOp'.result = "error"
              /\ emitted' = <<>>
              /\ wrote' = <<>>
              /\ UNCHANGED <<sessionVars, driverVars>>]_vars

\* start() was refused on an idle session because the driver is not open
C2_Witness ==
    /\ lastOp = Op("start", "error")
    /\ state = "idle"
    /\ serialPort = "opening"

\* C3: a sample is emitted or appended only by a tick that finds the session
\* active; never while paused and never after stop().
C3_EmitOnlyWhenActive ==
    [][(dataPoints' # dataPoints \/ emitted' = <<"datapoint">>) =>
          (lastOp'.op = "tick" /\ state = "active")]_vars

\* a timeout armed earlier ran after stop() and collected nothing
C3_Witness ==
    /\ lastOp = Op("tick", "ok")
    /\ state = "finished"
    /\ emitted = <<>>
    /\ Len(dataPoints) > 0

\* C4: after start -> (pause -> resume)* -> stop the duration is
\* floor((end_time - start_time - time spent paused)/1000), and each emitted
\* sample carries floor((now - start_time - total_paused_ms)/1000).
C4_PauseAccounting ==
    [][/\ (state' = "finished" /\ stoppedFrom' = "active") =>
             /\ CalculateDuration(startTime', endTime', totalPausedTime')
                   = (endTime' - startTime' - pausedWall') \div 1000
             /\ lastOp'.op = "stop" =>
                   observedDuration'
                       = (endTime' - startTime' - pausedWall') \div 1000
       /\ emitted' = <<"datapoint">> =>
             /\ dataPoints'[Len(dataPoints')].elapsedTime
                   = (now - startTime - totalPausedTime) \div 1000
             /\ totalPausedTime = pausedWall]_vars

\* a paused-and-resumed run was stopped with a sub-second remainder
C4_Witness ==
    /\ lastOp = Op("stop", "ok")
    /\ stoppedFrom = "active"
    /\ pausedWall >= 1000
    /\ Len(dataPoints) > 0
    /\ (endTime - startTime - pausedWall) % 1000 # 0

C6_Original ==
    [][(lastOp'.op \in {"stop", "handleStopSession"} /\ lastOp'.result = "ok") =>
          /\ ~waterRowerSubscription'
          /\ ~heartRateSubscription'
          /\ serialPort' = "null"
          /\ ~hrmConnected']_vars

\* C6 as amended: a successful stop() unsubscribes from datapoints$ and
\* heart_rate$ and asks a connected HRM client to disconnect without waiting
\* for it; it does not close the S4 driver, whose port, polling timer and
\* reads$ stay as they were, and it writes nothing to the port.
C6_StopReleasesStreamsOnly ==
    [][(lastOp'.op = "stop" /\ lastOp'.result = "ok") =>
          /\ ~waterRowerSubscription'
          /\ ~heartRateSubscription'
          /\ (hrmPeripheral /\ hrmConnected) => hrmDisconnecting'
          /\ UNCHANGED <<driverVars, hrmPeripheral, hrmConnected>>
          /\ wrote' = <<>>]_vars

\* stop() has returned: the driver is still open and the HRM client, which
\* the session had subscribed to, is still marked connected
C6_Witness ==
    /\ lastOp = Op("stop", "ok")
    /\ serialPort = "open"
    /\ requestTime
    /\ hrmConnected
    /\ hrmDisconnecting
    /\ currentData.heartRate # Undefined

\* C7: the durations handed out (elapsed_s of samples, summary duration)
\* never decrease.
C7_DurationMonotone ==
    [][observedDuration' >= observedDuration]_vars

\* C8: a sample from the rower or the heart-rate monitor that arrives while
\* the session is not active leaves the scratchpad unchanged.
C8_InactiveSessionIgnoresSamples ==
    [][(lastOp'.op \in {"s4sample", "hrsample"} /\ state # "active") =>
          currentData' = currentData]_vars

\* a heart-rate sample reached the subscribed callback of a paused session
C8_Witness ==
    /\ lastOp = Op("hrsample", "ok")
    /\ state = "paused"
    /\ heartRateSubscription
    /\ waterRowerSubscription
    /\ currentData.distance # Undefined
    /\ currentData.heartRate = Undefined

\* C9: while the session is active the scratchpad distance never decreases.
C9_DistanceMonotone ==
    [][(state = "active" /\ state' = "active") =>
          currentData'.distance >= currentData.distance]_vars

\* C10: a close() that follows a close() writes nothing, emits no event and
\* leaves the driver as it was.
C10_SecondCloseSilent ==
    [][(lastOp.op = "close" /\ lastOp'.op = "close") =>
          /\ wrote' = <<>>
          /\ emitted' = <<>>
          /\ UNCHANGED driverVars]_vars

\* the driver was closed and has not been given a new port since
Closed == readsCompleted /\ serialPort = "null"

\* C11: while the driver is closed no line is written to the serial port,
\* whichever callback runs: reset, a workout or display command, a request
\* for data points or a delayed request of a batch scheduled before close().
C11_NoWriteAfterClose == [][Closed => wrote' = <<>>]_vars

\* a delayed request fired on the closed driver and was dropped
C11_Witness ==
    /\ Closed
    /\ lastOp = Op("reqValue", "dropped")
    /\ wrote = <<>>

\* C12: once close() has returned, no polling interval is left to issue
\* requests and no replayed read reaches the subscribers of reads$, also
\* when close() ran between connectSerial and the port's 'open' event.
C12_ClosedIsQuiet ==
    [][Closed => /\ lastOp'.op # "pollTick"
                 /\ lastOp' # Op("replay", "delivered")]_vars

\* C13: connectSerial on a connected driver does nothing, and at no time is
\* there more than one port or more than one polling interval.
C13_SingleConnection ==
    /\ [][(IsConnected /\ lastOp'.op = "connectSerial")
            => UNCHANGED driverVars]_vars
    /\ [](PortHandles <= 1 /\ PollingTimers <= 1)

DriverCloses == \E i \in DOMAIN emitted' : emitted'[i] = "wr:close"

\* C15: when the driver emits its close event while the session is active,
\* the session is finished by that same callback, without a call of stop().
C15_CloseFinishesSession ==
    [][(state = "active" /\ DriverCloses) => state' = "finished"]_vars

\* C16: an error delivered on datapoints$ or on heartRate$ is re-emitted as
\* the session's 'error' event and leaves the state and the pending
\* one-second timer as they were.
C16_StreamErrorSurfaced ==
    [][lastOp'.op \in {"s4error", "hrerror"}
         => /\ emitted' = <<"error">>
            /\ state' = state
            /\ timers' = timers]_vars

C18_FailedConnectLeavesNothing ==
    [][lastOp' = Op("connectAsync", "not found")
         => ~hrmConnected' /\ ~hrmPeripheral']_vars

\* C19: when the transport of a subscribed monitor goes down, 'disconnected'
\* is emitted exactly once and isConnected() is false afterwards.
C19_DropEmitsOnce ==
    [][(hrmConnected /\ lastOp'.op = "hrmDisconnected")
         => emitted' = <<"hrm:disconnected">> /\ ~hrmConnected']_vars

\* updateData was just called with exactly one of its two arguments
OneFieldAbsent ==
    /\ lastOp'.op = "updateData"
    /\ (argPower' = Null) # (argCadence' = Null)

\* C20: updateData with one argument absent notifies a subscribed central of
\* the value just passed for the other field, 0 included, together with the
\* cached value of the absent field; without a subscribed central it sends
\* nothing and leaves both cached values alone.
C20_StickyLast ==
    [][OneFieldAbsent
         => IF updateValueCallback
            THEN notified' =
                   <<Payload(IF argCadence' = Null THEN cachedCadence
                             ELSE argCadence',
                             IF argPower' = Null THEN cachedPower
                             ELSE argPower')>>
            ELSE /\ notified' = <<>>
                 /\ UNCHANGED <<cachedPower, cachedCadence>>]_vars

\* C21: after any sequence of adapter state events the peripheral advertises
\* exactly when the latest state is poweredOn, the service is registered only
\* once advertising has started without error, and a state event that repeats
\* the previous state starts no advertising and registers no service.
C21_AdvertisingFollowsState ==
    [][/\ advPending' = 0 => (advertising' <=> blenoState' = "poweredOn")
       /\ lastOp'.result = "setServices" => advertising'
       /\ (lastOp'.op = "stateChange" /\ blenoState' = blenoState)
            => /\ lastOp'.result # "startAdvertising"
               /\ advPending' = advPending]_vars

\* C22: with a central subscribed, stroke_rate = s followed by kcal_watts = w
\* ends in a notification of six bytes: flags 0x0044, cadence 2 * s and power
\* w, each little-endian (44 00 30 00 B4 00 for s = 24 and w = 180).
C22_StrokeThenWattsBytes ==
    [][(/\ lastOp.op = "updateData" /\ argPower = Null /\ argCadence # Null
        /\ notified # <<>>
        /\ lastOp'.op = "updateData" /\ argCadence' = Null
        /\ argPower' # Null /\ updateValueCallback)
       => /\ Len(notified') = 1
          /\ Bytes(notified'[1]) =
                <<68, 0>> \o WriteUInt16LE(argCadence)
                          \o WriteUInt16LE(argPower')]_vars

\* C23: every element a subscriber of datapoints$ receives is the decoded
\* sample of a register of the table; a datapoint frame of an unknown address
\* or one that does not parse delivers nothing, no null element either, and
\* does not end the stream.
C23_OnlyDecodedSamples ==
    [][lastOp'.op \in {"data", "replay"}
       => /\ \A i \in DOMAIN delivered' :
                /\ delivered'[i] # NullElement
                /\ delivered'[i].name \in RegisterNames
          /\ readsCompleted' = readsCompleted]_vars

\* C24: readDataPoints(r) returns the value of the latest datapoint frame of
\* register r, and the initial value of r while no frame of r has arrived.
C24_ReadReturnsLatest ==
    (lastOp.op = "readDataPoints" /\ lastOp.result \in RegisterNames)
    => returned = IF latest[lastOp.result] = NoValue
                  THEN Register(lastOp.result).value
                  ELSE latest[lastOp.result]

\* the request commands of the table with the tags S, D and T
TaggedRequests(dataPoint) ==
    {"IR" \o tag \o dataPoint.address : tag \in WidthTags}

\* C25: for every register requestDataPoints writes exactly one command
\* IR{tag}{address} with the tag S, D or T of the declared width, and no IR
\* command with another tag is ever written.
C25_RequestTags ==
    [][lastOp'.op = "reqValue"
       => /\ Len(wrote') <= 1
          /\ \A i \in DOMAIN wrote' :
                \E d \in DataPoints :
                   /\ wrote'[i] \in TaggedRequests(d)
                   /\ wrote'[i] = "IR" \o d.length \o d.address]_vars

\* the reads of a replay queue
QueuedReads(queue) == [i \in DOMAIN queue |-> queue[i].read]
\* the wait between two reads of a recording
Wait(previous, next) == IF next > previous THEN next - previous ELSE 0

\* C26: one recording writes exactly the reads that are no pulse, each once
\* and in the order they arrive; playRecording of the file republishes the
\* reads of the file in order, the first at once and each next one after the
\* difference of its timestamp to the one before, and the promise resolves
\* only when the last read has been republished.
C26_RecordThenReplay ==
    [][/\ (/\ lastOp'.op \in {"data", "replay"}
           /\ recordingSubscription /\ leakedRecordings = 0
           /\ ~readsCompleted)
          => file' = IF published'[1].type = "pulse"
                     THEN file
                     ELSE Append(file, Stringify(published'[1]))
       /\ lastOp' = Op("playRecording", "ok")
          => /\ QueuedReads(replay') = [i \in DOMAIN file |-> ParseLine(file[i])]
             /\ playing'
       /\ lastOp'.op = "replay"
          => /\ published' = <<Head(replay).read>>
             /\ QueuedReads(replay') = Tail(QueuedReads(replay))
             /\ waited' = IF replayPrev = NoTime
                          THEN 0
                          ELSE Wait(replayPrev, Head(replay).read.time)
       /\ (playing /\ ~playing')
          => lastOp'.op = "replay" /\ replay' = <<>>]_vars

\* a recording has been replayed to its end, the last read after a wait and
\* long after it was recorded
C26_Witness ==
    /\ lastOp = Op("replay", "delivered")
    /\ ~playing
    /\ waited > 0
    /\ now > published[1].time
    /\ Len(file) >= 2

\* C27: after stopRecording no frame is appended to a recording file,
\* whatever calls of startRecording and stopRecording came before, two
\* startRecording before one stopRecording included.
C27_StopEndsRecording ==
    [][(~recordingSubscription /\ lastOp'.op \in {"data", "replay"})
       => appended' = 0]_vars

\* the value of a digit string in a radix, digit by digit from the right
RECURSIVE Positional(_, _)
Positional(chars, radix) ==
    IF chars = <<>>
    THEN 0
    ELSE Positional(SubSeq(chars, 1, Len(chars) - 1), radix) * radix
            + DigitValue(chars[Len(chars)])

\* C28: the value of a sample is the payload of the frame read in the radix
\* of the register and decoding a line again gives the same sample:
\* IDS1A912 is stroke_rate 18 and IDD08800C8 is kcal_watts 200.
C28_DecodeInRadix ==
    [][(/\ lastOp'.op = "data" /\ Len(delivered') = 1
        /\ delivered'[1] # NullElement)
       => LET line == published'[1].data
              d == delivered'[1]
              reg == RegisterAt(Join(SubSeq(line, 4, 6)))
              digits == SubSeq(line, 7, Len(line))
          IN  /\ d.name = reg.name
              /\ (\A i \in DOMAIN digits : DigitValue(digits[i]) < reg.radix)
                    => d.value = Positional(digits, reg.radix)
              /\ line = LineStrokeRate
                    => d.name = "stroke_rate" /\ d.value = 18
              /\ line = LineWatts => d.name = "kcal_watts" /\ d.value = 200
              /\ (lastOp.op = "data" /\ published = published')
                    => delivered' = delivered]_vars

\* a frame of a register of radix 10 has been decoded, and a line decoded
\* twice in a row
C28_Witness ==
    /\ lastOp = Op("data", "delivered")
    /\ published # <<>> /\ published[1].data = LineMph
    /\ delivered = <<[time |-> published[1].time, name |-> "mph", length |-> 2,
                      address |-> "1A3", value |-> 123]>>

\* C29: the rate is byte 1 when bit 0 of the flags is clear and the
\* little-endian 16-bit value of bytes 1 and 2 when it is set; payloads that
\* differ in the flag bits 1 to 7 only give the same rate (00 50 is 80 and
\* 01 30 01 is 304).
C29_HeartRateFormat ==
    [][lastOp' = Op("hrmData", "ok")
       => /\ hrPayload'[1] % 2 = 0 => heartRate' = hrPayload'[2]
          /\ hrPayload'[1] % 2 = 1
                => /\ Len(hrPayload') >= 3
                   /\ heartRate' = hrPayload'[2] + 256 * hrPayload'[3]
          /\ hrPayload' = <<0, 80>> => heartRate' = 80
          /\ hrPayload' = <<1, 48, 1>> => heartRate' = 304
          /\ (/\ lastOp = Op("hrmData", "ok")
              /\ hrPayload[1] % 2 = hrPayload'[1] % 2
              /\ Tail(hrPayload) = Tail(hrPayload'))
                => heartRate' = heartRate]_vars

\* a 16-bit rate with other flag bits set has been published
C29_Witness ==
    /\ lastOp = Op("hrmData", "ok")
    /\ hrPayload = <<23, 48, 1>>
    /\ heartRate = 304

\* C30: connectSerial with no port configured and no port of the
\* manufacturer in the list fails where the caller can see it, as an error
\* result or an 'error' event, and opens no port.
C30_NoDeviceFound ==
    [][lastOp' = Op("discoverPort", "none")
       => /\ \E i \in DOMAIN emitted' : emitted'[i] = "error"
          /\ PortHandles' = PortHandles]_vars

\* C31: when the port reports 'disconnect' or 'closed' the driver emits
\* 'close', cancels the polling timer and is not connected afterwards.
C31_HangUpCloses ==
    [][lastOp'.op = "hangUp"
       => /\ DriverCloses
          /\ ~requestTime'
          /\ ~IsConnected']_vars

\* C32: at most one one-second timeout of the session is pending at any
\* time, also when pause() and resume() are both called before the timeout
\* armed earlier has fired.
C32_OneTimerPending == Len(timers) <= 1

\* C33: time spent paused is not counted in the duration: after stop() in
\* state paused the duration is what it was at the moment of that pause.
C33_LastPauseNotCounted ==
    (state = "finished" /\ stoppedFrom = "paused" /\ pauseTime # NoTime)
    => CalculateDuration(startTime, endTime, totalPausedTime)
          = CalculateDuration(startTime, pauseTime, totalPausedTime)

\* C34: after close() and a new connect that succeeded, a frame the open
\* port receives is delivered to the subscribers of reads$ and datapoints$.
C34_DeliveryAfterReconnect ==
    [][(lastOp'.op = "data" /\ serialPort = "open")
       => /\ lastOp'.result = "delivered"
          /\ published'[1].type = "datapoint" => delivered' # <<>>]_vars

\* C35: with the start-up handler that calls reset() on every 'initialized'
\* signal, the hardware-type reply to the USB handshake that reset() has
\* re-issued does not lead to another reset(): no RESET is written in the
\* step that receives it
C35_ResetOnlyOnce ==
    [][(wrote = StartupCommands
        /\ lastOp'.op = "data"
        /\ published'[1].type = "hardwaretype")
       => resets' = resets]_vars

\* C36: during reconnect at most one connect attempt is in progress: an
\* attempt that hit the 30-second timeout is no longer running when the next
\* one has started.
C36_OneAttemptInProgress ==
    caller = "reconnect"
       => AbandonedCount + (IF attempt \in Phases THEN 1 ELSE 0) <= 1

\* C37: a notification sent for a new stroke rate carries the most recent
\* power the peripheral has been given, also when that power was given
\* before the central subscribed: after an updateData that passed a power,
\* the next updateData that passes only a cadence notifies that power.
C37_NotifiesMostRecent ==
    [][(/\ argPower # Null
        /\ updateValueCallback
        /\ lastOp'.op = "updateData"
        /\ argPower' = Null
        /\ argCadence' # Null)
       => /\ notified' # <<>>
          /\ notified'[1] = Payload(argCadence', argPower)]_vars

\* C38: any two IR request writes on the serial port are at least 50 ms
\* apart, also across consecutive polling ticks.
C38_RequestsSpaced ==
    [][(lastOp'.op = "reqValue" /\ wrote' # <<>> /\ poll.lastWrite # NoTime)
       => now' - poll.lastWrite >= DelayMs]_vars

\* C39: the publish of the serial reader on reads$ completes without waiting
\* for a subscriber to finish handling the element: when the 'data' handler
\* has returned from a publish that was passed on, no recording has yet
\* written the element to its file.
C39_PublishDoesNotWait ==
    [][(lastOp'.op = "data" /\ lastOp'.result = "delivered")
       => appended' = 0 /\ file' = file]_vars

\* C40: on shutdown the driver closes last: when the interrupt signal has
\* closed the driver, the training session is no longer running, the
\* peripheral no longer advertises and the heart-rate monitor is no longer
\* connected.
C40_DriverClosesLast ==
    [][lastOp'.op = "sigint"
       => /\ state' \notin {"active", "paused"}
          /\ ~advertising'
          /\ ~hrmConnected']_vars

====
